---- MODULE Spec2Model ----
(***************************************************************************)
(* Model of the LangGraph chatbot: the tool registry (ToolsManager,        *)
(* RemoteMCPTools, MCPClient), the per-thread retriever map and the agent  *)
(* loop of ChatbotManager (agent node, conditional edge, tools node) as    *)
(* driven by the compiled graph, with its optional per-thread checkpoint.  *)
(***************************************************************************)
EXTENDS Integers, Sequences, FiniteSets, TLC

\* ------------------------------------------------------------------ bounds
MaxWork == 3           \* operations in one run: turns started, tool calls
                       \* requested, document uploads and closes
MaxUploads == 2        \* successful document associations in one run
RecursionLimit == 3    \* supersteps the compiled graph runs in one turn
MaxCloses == 2         \* calls of aclose at shutdown

\* ------------------------------------------------------------ input domains
Threads == {"t1", "t2"}
Slots == {1, 2}                  \* request handlers that can be in flight
DocIds == <<"d1", "d2", "d3", "d4">>   \* the retriever built by the n-th upload
NoDoc == "none"
UserTexts == {"hello", " hello ", "  ", ""}   \* the message of a chat request
BlankTexts == {"  ", ""}                      \* those with nothing but spaces
AnswerTexts == {"4"}
PreambleTexts == {"", "ok"}     \* text a model can send along with tool calls
Shapes == {"message", "has_message", "has_messages", "list", "other"}

\* ------------------------------------------------------------------- tools
NoTool == [name |-> "", origin |-> "none"]

LocalTool(n) == [name |-> n, origin |-> "local"]

RemoteTool(n) == [name |-> n, origin |-> "remote"]

\* ToolsManager.__init__: self.local_tools
local_tools ==
  <<LocalTool("duckduckgo_search"), LocalTool("stock_price"), LocalTool("rag_tool")>>

\* ChatbotManager.__init__ without a tools manager
fallback_tools ==
  <<LocalTool("rag_tool"), LocalTool("stock_price"), LocalTool("duckduckgo_search")>>

\* MCPClient.__init__: the servers given to MultiServerMCPClient, in order
Providers == <<"arith", "expense">>

\* the tools a server lists when it answers
ProviderTools(p) == IF p = "arith" THEN <<"calculator">> ELSE <<"stock_price">>

\* how the servers can behave at discovery: each answers or fails
ProviderOutcomes == [{Providers[i] : i \in 1..Len(Providers)} -> {"ok", "fail"}]

NotContacted == [p \in {Providers[i] : i \in 1..Len(Providers)} |-> "unused"]

\* self.client.get_tools() of MultiServerMCPClient: the tools of every
\* server are gathered in one await, which raises when any server fails
client_raised(outcome) == \E p \in DOMAIN outcome : outcome[p] = "fail"

RECURSIVE gathered(_, _)
gathered(outcome, i) ==
  IF i > Len(Providers) THEN <<>>
  ELSE (IF outcome[Providers[i]] = "ok" THEN ProviderTools(Providers[i]) ELSE <<>>)
         \o gathered(outcome, i + 1)

\* what get_tools returns when it does not raise
client_tools(outcome) == gathered(outcome, 1)


\* a get_tools that answers an earlier listing when it cannot reach the servers
MCPClient_get_tools_stale(client_ok, raised, names) ==
  IF ~client_ok \/ raised THEN <<"calculator">> ELSE names

\* MCPClient.get_tools: [] without a client or on any error
MCPClient_get_tools(client_ok, raised, names) ==
  IF ~client_ok THEN <<>>
  ELSE IF raised THEN <<>>
  ELSE names

\* RemoteMCPTools.load_tools: one StructuredTool per MCP tool, same order
load_tools(client_ok, raised, names) ==
  LET mcp_tools == MCPClient_get_tools(client_ok, raised, names)
  IN [i \in 1..Len(mcp_tools) |-> RemoteTool(mcp_tools[i])]

\* get_all_tools with the MCP tools put before the local ones
get_all_tools_remote_first(enable_mcp, client_ok, raised, names) ==
  IF enable_mcp
    THEN load_tools(client_ok, raised, names) \o local_tools
    ELSE local_tools

\* ToolsManager.get_all_tools: local tools, then the MCP tools
get_all_tools(enable_mcp, client_ok, raised, names) ==
  IF enable_mcp
    THEN local_tools \o load_tools(client_ok, raised, names)
    ELSE local_tools

Min(S) == CHOOSE x \in S : \A y \in S : x <= y

Lower(n) == IF n = "RAG_TOOL" THEN "rag_tool" ELSE n

\* the lookup taking the last tool of the name
FindTool_last_match(ts, tc_name) ==
  LET hits == {i \in 1..Len(ts) : ts[i].name = tc_name}
  IN IF hits = {} THEN NoTool ELSE ts[CHOOSE i \in hits : \A j \in hits : j <= i]

\* the lookup with names compared without regard to case
FindTool_ignore_case(ts, tc_name) ==
  LET hits == {i \in 1..Len(ts) : Lower(ts[i].name) = Lower(tc_name)}
  IN IF hits = {} THEN NoTool ELSE ts[Min(hits)]

\* _call_tool: next((t for t in self.tools if t.name == tc_name), None)
FindTool(ts, tc_name) ==
  LET hits == {i \in 1..Len(ts) : ts[i].name = tc_name}
  IN IF hits = {} THEN NoTool ELSE ts[Min(hits)]

\* ---------------------------------------------------------------- messages
HumanMessage(c) == [type |-> "human", content |-> c]

AIMessage(c, calls) == [type |-> "ai", content |-> c, tool_calls |-> calls]

\* a tool message built without the id of its request
ToolMessage_no_id(c, id, n) ==
  [type |-> "tool", content |-> c, tool_call_id |-> 0, name |-> n]

ToolMessage(c, id, n) ==
  [type |-> "tool", content |-> c, tool_call_id |-> id, name |-> n]

\* the requests a model can put in a message: name and the value of the
\* tool's one argument ("" is an absent or empty argument)
CallKinds ==
  { [name |-> "rag_tool", args |-> "q1"],
    [name |-> "stock_price", args |-> "AAPL"],
    [name |-> "stock_price", args |-> ""],
    [name |-> "calculator", args |-> "q1"],
    [name |-> "RAG_TOOL", args |-> "q1"] }

ToolCall(i, k) == [id |-> i, name |-> k.name, args |-> k.args]

\* tool_calls lists of n requests, ids unique within the message
CallLists(n) ==
  { [i \in 1..n |-> ToolCall(i, ks[i])] : ks \in [1..n -> CallKinds] }

\* ------------------------------------------------------------ tool outputs
\* py is the Python type of the value: str(output) keeps a str and turns a
\* dict into its text form
Str(output) == [output EXCEPT !.py = "str"]

NotFoundOutput(tc_name) == [py |-> "str", kind |-> "not_found", of |-> tc_name, arg |-> "", doc |-> NoDoc]

NoDocumentOutput == [py |-> "dict", kind |-> "no_document", of |-> "rag_tool", arg |-> "", doc |-> NoDoc]

\* RAGTool._arun: {'query', 'context', 'metadata'} from the retriever
RagOutput(query, retriever) == [py |-> "dict", kind |-> "passages", of |-> "rag_tool", arg |-> query, doc |-> retriever]

\* StockPriceTool._run: resp.json()
QuoteOutput(symbol) == [py |-> "dict", kind |-> "quote", of |-> "stock_price", arg |-> symbol, doc |-> NoDoc]

SearchOutput(q) == [py |-> "str", kind |-> "results", of |-> "duckduckgo_search", arg |-> q, doc |-> NoDoc]

\* MCPClient.run_tool: str(result), or "Error: ..." on any exception
RemoteOutput(n, q) == [py |-> "str", kind |-> "result", of |-> n, arg |-> q, doc |-> NoDoc]

RemoteError(n, q) == [py |-> "str", kind |-> "error", of |-> n, arg |-> q, doc |-> NoDoc]

Raised == [py |-> "exception", kind |-> "raised", of |-> "", arg |-> "", doc |-> NoDoc]

\* an await that never completes
Pending == [py |-> "none", kind |-> "pending", of |-> "", arg |-> "", doc |-> NoDoc]

\* what tool.ainvoke(args) can do, by tool: a remote tool awaits its server
\* (MCPClient.run_tool: await tool.ainvoke(args)) for as long as it takes;
\* StockPriceTool gives up after 10 seconds and raises
ainvoke(tool, args) ==
  IF tool.origin = "remote"
    THEN {RemoteOutput(tool.name, args), RemoteError(tool.name, args), Pending}
  ELSE IF tool.name = "stock_price"
    THEN IF args = "" THEN {Raised} ELSE {QuoteOutput(args), Raised}
  ELSE {SearchOutput(args), Raised}

\* RAGTool._arun(query, retriever=retriever); when it raises, the fallback
\* ainvoke(..., retriever=retriever) does not hand the retriever to _arun
\* and raises as well
rag_arun(query, retriever) == {RagOutput(query, retriever), Raised}


\* ------------------------------------------------------------ model backend
UnrecognizedText == "str(response)"

\* what llm_with_tools.ainvoke can do when the model may still emit `budget`
\* tool-call requests: raise, return an object of an unknown shape, or return
\* a message (possibly wrapped) with an answer or with tool calls
LLMResponses(budget) ==
  {[kind |-> "raise", shape |-> "none", msg |-> AIMessage("", <<>>)]}
  \cup {[kind |-> "ok", shape |-> "other", msg |-> AIMessage("", <<>>)]}
  \cup {[kind |-> "ok", shape |-> sh, msg |-> AIMessage(c, <<>>)] :
          sh \in Shapes \ {"other"}, c \in AnswerTexts}
  \cup {[kind |-> "ok", shape |-> sh, msg |-> AIMessage(c, cs)] :
          sh \in Shapes \ {"other"}, c \in PreambleTexts,
          cs \in UNION {CallLists(n) : n \in 1..budget}}

\* the content chunks in which the model backend streams a text: the first
\* chunk of a stream carries no text
Chunks(c) ==
  IF c = "" THEN <<"">>
  ELSE IF c = "ok" THEN <<"", "o", "k">>
  ELSE <<"", c>>

\* ---------------------------------------------------------------- streaming
Event(kind, content) == [event |-> kind, content |-> content]

\* the message chunks in which the model backend streams a message: the
\* chunks of its text, then one chunk without text for each tool call
MessageChunks(msg) ==
  [i \in 1..Len(Chunks(msg.content)) |->
     [content |-> Chunks(msg.content)[i], tool_call_chunks |-> <<>>]]
  \o [i \in 1..Len(msg.tool_calls) |->
        [content |-> "", tool_call_chunks |-> <<msg.tool_calls[i]>>]]

\* the events of one model call as astream_events(version="v2") reports
\* them: a call that raises or returns no message streams no chunk
model_events(response) ==
  IF response.kind = "raise" \/ response.shape = "other"
    THEN <<Event("on_chat_model_start", "")>>
    ELSE LET chunks == MessageChunks(response.msg)
         IN <<Event("on_chat_model_start", "")>>
            \o [i \in 1..Len(chunks) |-> Event("on_chat_model_stream", chunks[i].content)]
            \o <<Event("on_chat_model_end", response.msg.content)>>

\* the chunks of one model call added up (AIMessageChunk.__add__): the texts
\* joined in order, the tool calls in order
RECURSIVE add_chunks(_)
add_chunks(chunks) ==
  IF chunks = <<>> THEN [content |-> "", tool_call_chunks |-> <<>>]
  ELSE LET rest == add_chunks(Tail(chunks))
       IN [content |-> Head(chunks).content \o rest.content,
           tool_call_chunks |-> Head(chunks).tool_call_chunks \o rest.tool_call_chunks]

\* a streamed call that answers with the text of its last chunk
generate_from_stream_last_chunk(chunks) ==
  LET sum == add_chunks(chunks)
  IN AIMessage(chunks[Len(chunks)].content, sum.tool_call_chunks)

\* the message of a model call that was streamed: the sum of its chunks
generate_from_stream(chunks) ==
  LET sum == add_chunks(chunks)
  IN AIMessage(sum.content, sum.tool_call_chunks)

\* the two ways a turn is driven: invoke awaits graph.ainvoke, stream
\* iterates graph.astream_events
Drivers == {"ainvoke", "astream_events"}

\* self.llm_with_tools.ainvoke(messages) in the agent node: under
\* astream_events the run carries a streaming callback, the model call is
\* streamed and its chunks are added up to the message returned; under
\* ainvoke the model returns its message whole
llm_ainvoke(driver, response) ==
  IF driver = "astream_events" /\ response.kind = "ok" /\ response.shape # "other"
    THEN [response EXCEPT !.msg = generate_from_stream(MessageChunks(response.msg))]
    ELSE response

\* tool invocations reported as a chunk that separates two model calls
tool_events_separator(calls) == <<Event("on_chat_model_stream", "--")>>

\* the events of the tool invocations made for one request
tool_events(calls) ==
  IF calls = <<>> THEN <<>>
  ELSE <<Event("on_tool_start", calls[1].name), Event("on_tool_end", calls[1].name)>>

\* the frame stream yields for one chunk: data: {"content": ...} and a blank line
sse(content) == [data |-> [content |-> content]]

\* a stream that yields a frame for every event with a content
RECURSIVE stream_every_event(_)
stream_every_event(events) ==
  IF events = <<>> THEN <<>>
  ELSE (IF Head(events).content # "" THEN <<sse(Head(events).content)>> ELSE <<>>)
         \o stream_every_event(Tail(events))

\* a stream that yields a frame for every chunk, with or without content
RECURSIVE stream_every_chunk(_)
stream_every_chunk(events) ==
  IF events = <<>> THEN <<>>
  ELSE (IF Head(events).event = "on_chat_model_stream"
          THEN <<sse(Head(events).content)>>
          ELSE <<>>)
         \o stream_every_chunk(Tail(events))

\* stream: one frame per on_chat_model_stream event whose chunk has content
RECURSIVE stream(_)
stream(events) ==
  IF events = <<>> THEN <<>>
  ELSE (IF Head(events).event = "on_chat_model_stream" /\ Head(events).content # ""
          THEN <<sse(Head(events).content)>>
          ELSE <<>>)
         \o stream(Tail(events))

\* _call_model: unwrap the response to one message
normalize(response) ==
  IF response.shape \in {"message", "has_message", "has_messages", "list"}
    THEN response.msg
    ELSE HumanMessage(UnrecognizedText)

\* the conditional edge sending every assistant message to the tools node
should_continue_always_tools(messages) ==
  LET last == messages[Len(messages)]
  IN IF last.type # "ai" THEN "AttributeError" ELSE "tools"

END == "__end__"

\* _should_continue: reads .tool_calls of the last message, which only an
\* assistant message has
should_continue(messages) ==
  LET last == messages[Len(messages)]
  IN IF last.type # "ai" THEN "AttributeError"
     ELSE IF last.tool_calls # <<>> THEN "tools"
     ELSE END

\* invoke: final_state["messages"][-1].content
final_response(messages) == messages[Len(messages)].content

\* -------------------------------------------------------------------- state
VARIABLES
  chatbot,            \* main.py's global: "none" or "ready" ("closed" after
                      \* shutdown, "startup_failed" when lifespan raised)
  tools,              \* ChatbotManager.tools
  discovered,         \* the remote tool names load_tools returned at startup
  checkpointer,       \* whether the graph was compiled with a checkpointer
  checkpoint,         \* the checkpointer's latest messages, by thread_id
  thread_retrievers,  \* ChatbotManager._thread_retrievers
  turn,               \* the graph run of each request handler (reply: the
                      \* text the model backend returned for the answer)
  history,            \* by thread: the messages of its completed turns
  unclean,            \* by thread: a turn on it failed, was cancelled or
                      \* overlapped another
  nWork, nUploads,
  thread_metadata,    \* ChatbotManager._thread_metadata
  upload,             \* the last document upload: thread, file, error raised
                      \* and, for POST /upload-pdf, the status answered
  tools_manager,      \* ChatbotManager.tools_manager is not None
  remote_mgr,         \* ToolsManager._remote_mgr: "none", or the state of its
                      \* MCPClient.client ("unavailable" is None)
  providers,          \* by server: what it did at discovery
  closes,             \* calls of ChatbotManager.aclose so far
  released,           \* calls of RemoteMCPTools.aclose so far
  constructions,      \* calls of ChatbotManager.__init__ so far
  llm_with_tools      \* the names of the tools bound to the model

registry ==
  <<tools_manager, remote_mgr, providers, closes, released, constructions,
    llm_with_tools>>

uploads == <<thread_metadata, upload>>

vars ==
  <<chatbot, tools, discovered, checkpointer, checkpoint, thread_retrievers, turn,
    history, unclean, nWork, nUploads, registry, uploads>>

NoMeta == [filename |-> "none"]

NoUpload == [thread_id |-> "none", file |-> "none", error |-> "", status |-> 0]

IdleTurn ==
  [pc |-> "idle", thread_id |-> "none", messages |-> <<>>, nbase |-> 0,
   step |-> 0, idx |-> 0, tool_outputs |-> <<>>, invoked |-> <<>>,
   reply |-> "", result |-> "", error |-> "", fragments |-> <<>>,
   abandoned |-> FALSE]

Init ==
  /\ chatbot = "none"
  /\ tools = <<>>
  /\ discovered = <<>>
  /\ checkpointer = FALSE
  /\ checkpoint = [t \in Threads |-> <<>>]
  /\ thread_retrievers = [t \in Threads |-> NoDoc]
  /\ turn = [s \in Slots |-> IdleTurn]
  /\ history = [t \in Threads |-> <<>>]
  /\ unclean = [t \in Threads |-> FALSE]
  /\ nWork = 0
  /\ nUploads = 0
  /\ thread_metadata = [t \in Threads |-> NoMeta]
  /\ upload = NoUpload
  /\ tools_manager = FALSE
  /\ remote_mgr = "none"
  /\ providers = NotContacted
  /\ closes = 0
  /\ released = 0
  /\ constructions = 0
  /\ llm_with_tools = <<>>

\* a graph that saves nothing although a checkpointer was given
put_nothing(cp, t, messages) == cp

\* a graph that saves a run's state under every thread_id
put_every_thread(cp, t, messages) ==
  IF checkpointer THEN [u \in DOMAIN cp |-> messages] ELSE cp

\* graph.compile(checkpointer=...): with a checkpointer every superstep's
\* state is saved under the thread_id; without one nothing is kept
put(cp, t, messages) ==
  IF checkpointer THEN [cp EXCEPT ![t] = messages] ELSE cp

\* a graph with no limit on its supersteps
out_of_steps_never(step) == FALSE

\* the compiled graph stops a run that needs more than RecursionLimit
\* supersteps
out_of_steps(step) == step >= RecursionLimit

\* ------------------------------------------------------------------ startup
\* llm.bind_tools(tools): the model is told the tools by name
bind_tools(ts) == [i \in 1..Len(ts) |-> ts[i].name]

\* ChatbotManager.__init__: the tools manager's local tools, or the three
\* hard-coded ones, are kept in self.tools and bound to the model
manager_init(given) ==
  LET ts == IF given THEN local_tools ELSE fallback_tools
  IN [tools |-> ts, llm_with_tools |-> bind_tools(ts)]

\* a create that overrides the tools and leaves the model bound as it was
manager_create_no_rebind(all_tools) ==
  [manager_init(TRUE) EXCEPT !.tools = all_tools]

\* ChatbotManager.create after the construction: inst.tools = all_tools and
\* the model is bound again to inst.tools
manager_create(all_tools) ==
  [manager_init(TRUE) EXCEPT !.tools = all_tools,
                             !.llm_with_tools = bind_tools(all_tools)]

\* ChatbotManager.create: ToolsManager.create, get_all_tools, rebind
Create(cp, enable_mcp, client_ok, outcome) ==
  /\ chatbot = "none"
  /\ chatbot' = "ready"
  /\ checkpointer' = cp
  /\ LET raised == client_raised(outcome)
         names == client_tools(outcome)
         inst == manager_create(get_all_tools(enable_mcp, client_ok, raised, names))
     IN /\ tools' = inst.tools
        /\ llm_with_tools' = inst.llm_with_tools
        /\ discovered' = IF enable_mcp
                           THEN MCPClient_get_tools(client_ok, raised, names)
                           ELSE <<>>
  /\ tools_manager' = TRUE
  /\ remote_mgr' = IF ~enable_mcp THEN "none"
                   ELSE IF client_ok THEN "connected" ELSE "unavailable"
  /\ providers' = IF enable_mcp /\ client_ok THEN outcome ELSE NotContacted
  /\ constructions' = constructions + 1
  /\ UNCHANGED <<checkpoint, thread_retrievers, turn, history, unclean,
                 nWork, nUploads, closes, released, uploads>>

\* ChatbotManager(checkpointer): local tools only
Construct(cp) ==
  /\ chatbot = "none"
  /\ chatbot' = "ready"
  /\ checkpointer' = cp
  /\ tools' = manager_init(FALSE).tools
  /\ llm_with_tools' = manager_init(FALSE).llm_with_tools
  /\ discovered' = <<>>
  /\ constructions' = constructions + 1
  /\ UNCHANGED <<checkpoint, thread_retrievers, turn, history, unclean,
                 nWork, nUploads, tools_manager, remote_mgr, providers, closes,
                 released, uploads>>

\* lifespan when OPENAI_API_KEY is not set: ToolsManager.create and
\* get_all_tools run, then ChatbotManager.__init__ raises ValueError in
\* ChatModelProvider(); the except branch takes it for a failure of the MCP
\* tools and calls ChatbotManager(), which raises the same error out of
\* lifespan: the service does not start and chatbot stays None
StartupWithoutKey(client_ok, outcome) ==
  /\ chatbot = "none"
  /\ chatbot' = "startup_failed"
  /\ providers' = IF client_ok THEN outcome ELSE NotContacted
  /\ constructions' = constructions + 2
  /\ UNCHANGED <<tools, discovered, checkpointer, checkpoint, thread_retrievers, turn,
                 history, unclean, nWork, nUploads, tools_manager, remote_mgr,
                 closes, released, llm_with_tools, uploads>>

\* a thread id that some request has named
Used(t) ==
  \/ history[t] # <<>>
  \/ unclean[t]
  \/ thread_retrievers[t] # NoDoc
  \/ \E s \in Slots : turn[s].thread_id = t

\* thread ids are taken in order: requests name "t2" once "t1" is in use
InOrder(t) == t = "t2" => Used("t1")

\* the file argument of add_document_to_thread: an UploadFile with a PDF, an
\* UploadFile whose content cannot be processed, or a path string
UploadFiles == {"upload", "broken_upload"}

Paths == {"present.pdf", "missing.pdf"}

\* VectorStoreManager.create_from_pdf: the error raised, "" for none
create_from_pdf(exists, file) ==
  IF ~exists THEN "FileNotFoundError"
  ELSE IF file = "broken_upload" THEN "IngestionError"
  ELSE ""

\* VectorStoreManager.create_from_upload: reads the file into a temporary
\* file and builds the retriever from that; a str has no read()
create_from_upload(file) ==
  IF file \in Paths THEN "AttributeError" ELSE create_from_pdf(TRUE, file)

\* an association that records the retriever and leaves the metadata out
add_document_without_metadata(retrievers, metadata, t, file, fresh) ==
  LET error == create_from_upload(file)
  IN IF error # ""
       THEN [error |-> error, retrievers |-> retrievers, metadata |-> metadata]
       ELSE [error |-> "",
             retrievers |-> [retrievers EXCEPT ![t] = fresh],
             metadata |-> metadata]

\* an association that keeps the retriever a thread already has
add_document_keeps_first(retrievers, metadata, t, file, fresh) ==
  [error |-> create_from_upload(file),
   retrievers |-> IF create_from_upload(file) = "" /\ retrievers[t] = NoDoc
                    THEN [retrievers EXCEPT ![t] = fresh] ELSE retrievers,
   metadata |-> IF create_from_upload(file) = "" /\ retrievers[t] = NoDoc
                  THEN [metadata EXCEPT ![t] = [filename |-> fresh]] ELSE metadata]

\* an association that forgets the thread's retriever when it fails
add_document_drops_on_failure(retrievers, metadata, t, file, fresh) ==
  [error |-> create_from_upload(file),
   retrievers |-> [retrievers EXCEPT ![t] =
                     IF create_from_upload(file) = "" THEN fresh ELSE NoDoc],
   metadata |-> [metadata EXCEPT ![t] =
                   IF create_from_upload(file) = "" THEN [filename |-> fresh] ELSE NoMeta]]

\* add_document_to_thread: the retriever is built first; the two maps are
\* written only when that did not raise
add_document_to_thread(retrievers, metadata, t, file, fresh) ==
  LET error == create_from_upload(file)
  IN IF error # ""
       THEN [error |-> error, retrievers |-> retrievers, metadata |-> metadata]
       ELSE [error |-> "",
             retrievers |-> [retrievers EXCEPT ![t] = fresh],
             metadata |-> [metadata EXCEPT ![t] = [filename |-> fresh]]]

\* the part of both kinds of upload: every retriever built is a new one; an
\* upload that fails is charged to the work of the run
Associate(t, file, status_of) ==
  /\ chatbot = "ready"
  /\ InOrder(t)
  /\ LET r == add_document_to_thread(thread_retrievers, thread_metadata, t, file,
                                     DocIds[nUploads + 1])
     IN /\ IF r.error = ""
             THEN nUploads < MaxUploads /\ nUploads' = nUploads + 1 /\ UNCHANGED nWork
             ELSE nWork < MaxWork /\ nWork' = nWork + 1 /\ UNCHANGED nUploads
        /\ thread_retrievers' = r.retrievers
        /\ thread_metadata' = r.metadata
        /\ upload' = [thread_id |-> t, file |-> file, error |-> r.error,
                      status |-> status_of[r.error]]
  /\ UNCHANGED <<registry, chatbot, tools, discovered, checkpointer, checkpoint, turn,
                 history, unclean>>

\* a direct call of add_document_to_thread with an UploadFile: no HTTP status
AddDocument(t, file) ==
  Associate(t, file, [e \in {"", "IngestionError", "AttributeError", "FileNotFoundError"} |-> 0])

\* POST /upload-pdf/{thread_id}?pdf_path=...: hands the path string to
\* add_document_to_thread; 404 for FileNotFoundError, 500 for any other error
upload_pdf(t, pdf_path) ==
  Associate(t, pdf_path,
            [e \in {"", "IngestionError", "AttributeError", "FileNotFoundError"} |->
               IF e = "" THEN 200 ELSE IF e = "FileNotFoundError" THEN 404 ELSE 500])

\* --------------------------------------------------------------- agent loop
Running(s) == turn[s].pc \in {"agent", "tools", "awaiting"}

\* a strip that leaves the text as it is
strip_nothing(text) == text

\* str.strip on the texts of UserTexts
strip(text) ==
  CASE text = " hello " -> "hello"
    [] text = "  " -> ""
    [] OTHER -> text

EmptyMessage == "Message cannot be empty"

\* chat_invoke / chat_stream: a message that is blank is answered with 400;
\* otherwise invoke / stream: the graph loads the thread's saved state, adds
\* the user message through the messages reducer (x + y) and saves the input
StartTurn(s, t, text) ==
  /\ chatbot = "ready"
  /\ ~Running(s)
  /\ \A o \in Slots : o < s => Running(o)    \* handlers are taken in order
  /\ InOrder(t)
  /\ nWork < MaxWork
  /\ nWork' = nWork + 1
  /\ IF text = "" \/ strip(text) = ""
       THEN /\ turn' = [turn EXCEPT ![s] =
                          [IdleTurn EXCEPT !.pc = "rejected", !.thread_id = t,
                                           !.error = EmptyMessage]]
            /\ UNCHANGED <<checkpoint, unclean>>
       ELSE /\ LET loaded == IF checkpointer THEN checkpoint[t] ELSE <<>>
                   messages == loaded \o <<HumanMessage(strip(text))>>
               IN /\ turn' = [turn EXCEPT ![s] =
                                [IdleTurn EXCEPT !.pc = "agent", !.thread_id = t,
                                                 !.messages = messages,
                                                 !.nbase = Len(loaded)]]
                  /\ checkpoint' = put(checkpoint, t, messages)
            /\ unclean' = [unclean EXCEPT ![t] =
                             @ \/ \E o \in Slots \ {s} :
                                    Running(o) /\ turn[o].thread_id = t]
  /\ UNCHANGED <<registry, uploads, chatbot, tools, discovered, checkpointer, thread_retrievers, history,
                 nUploads>>

Fail(s, err) ==
  /\ turn' = [turn EXCEPT ![s].pc = "failed", ![s].error = err]
  /\ unclean' = [unclean EXCEPT ![turn[s].thread_id] = TRUE]
  /\ UNCHANGED <<checkpoint, history>>

\* the agent node (_call_model) with its conditional edge (_should_continue)
CallModel(s) ==
  /\ turn[s].pc = "agent"
  /\ \E response \in LLMResponses(MaxWork - nWork) :
     \E msg \in {normalize(llm_ainvoke(driver, response)) : driver \in Drivers} :
       LET t == turn[s].thread_id
           messages == turn[s].messages \o <<msg>>
           next == should_continue(messages)
           step == turn[s].step + 1
       IN IF response.kind = "raise"
            THEN Fail(s, "ModelBackendError") /\ UNCHANGED nWork
          ELSE IF next = "AttributeError"
            THEN Fail(s, "AttributeError") /\ UNCHANGED nWork
          ELSE /\ nWork' = nWork + Len(response.msg.tool_calls)
               /\ checkpoint' = put(checkpoint, t, messages)
               /\ IF next = END
                    THEN /\ turn' = [turn EXCEPT ![s].pc = "done",
                                       ![s].messages = messages,
                                       ![s].fragments = @ \o stream(model_events(response)),
                                       ![s].step = step,
                                       ![s].reply = response.msg.content,
                                       ![s].result = final_response(messages)]
                         /\ history' = [history EXCEPT ![t] =
                               @ \o SubSeq(messages, turn[s].nbase + 1, Len(messages))]
                         /\ UNCHANGED unclean
                  ELSE IF out_of_steps(step)
                    THEN /\ turn' = [turn EXCEPT ![s].pc = "failed",
                                       ![s].messages = messages,
                                       ![s].fragments = @ \o stream(model_events(response)),
                                       ![s].step = step,
                                       ![s].error = "GraphRecursionError"]
                         /\ unclean' = [unclean EXCEPT ![t] = TRUE]
                         /\ UNCHANGED history
                  ELSE /\ turn' = [turn EXCEPT ![s].pc = "tools",
                                     ![s].messages = messages,
                                     ![s].fragments = @ \o stream(model_events(response)),
                                     ![s].step = step,
                                     ![s].idx = 1,
                                     ![s].tool_outputs = <<>>,
                                     ![s].invoked = <<>>]
                       /\ UNCHANGED <<history, unclean>>
  /\ UNCHANGED <<registry, uploads, chatbot, tools, discovered, checkpointer, thread_retrievers, nUploads>>


\* one call of a tool as _call_tool makes it
Invocation(tool, via, args, retriever) ==
  [name |-> tool.name, origin |-> tool.origin, via |-> via, args |-> args,
   retriever |-> retriever]

\* the loop body without the check that the thread has a retriever
dispatch_unchecked(ts, retriever, tc) ==
  LET tool_to_call == FindTool(ts, tc.name)
  IN IF tool_to_call = NoTool
       THEN {[out |-> NotFoundOutput(tc.name), calls |-> <<>>]}
     ELSE IF tc.name = "rag_tool"
       THEN {[out |-> o,
              calls |-> <<Invocation(tool_to_call, "_arun", tc.args, retriever)>>] :
             o \in rag_arun(tc.args, retriever)}
     ELSE {[out |-> o, calls |-> <<Invocation(tool_to_call, "ainvoke", tc.args, NoDoc)>>] :
             o \in ainvoke(tool_to_call, tc.args)}

\* the body of _call_tool's loop for one request: the possible outputs, each
\* with the tool invocations made to get it
dispatch(ts, retriever, tc) ==
  LET tool_to_call == FindTool(ts, tc.name)
  IN IF tool_to_call = NoTool
       THEN {[out |-> NotFoundOutput(tc.name), calls |-> <<>>]}
     ELSE IF tc.name = "rag_tool"
       THEN IF retriever = NoDoc
              THEN {[out |-> NoDocumentOutput, calls |-> <<>>]}
              ELSE {[out |-> o,
                     calls |-> IF o = Raised
                                 THEN <<Invocation(tool_to_call, "_arun", tc.args, retriever),
                                        Invocation(tool_to_call, "ainvoke", tc.args, retriever)>>
                                 ELSE <<Invocation(tool_to_call, "_arun", tc.args, retriever)>>] :
                    o \in rag_arun(tc.args, retriever)}
     ELSE {[out |-> o, calls |-> <<Invocation(tool_to_call, "ainvoke", tc.args, NoDoc)>>] :
             o \in ainvoke(tool_to_call, tc.args)}

Requests(s) == turn[s].messages[Len(turn[s].messages)].tool_calls

Logged(i, calls) == [k \in 1..Len(calls) |-> [idx |-> i, call |-> calls[k]]]

\* a tools node that starts the invocations of all requests together
DispatchToolCall_gather(s) ==
  /\ turn[s].pc = "tools"
  /\ turn[s].idx <= Len(Requests(s))
  /\ LET i == turn[s].idx
         tool_call == Requests(s)[i]
         retriever == thread_retrievers[turn[s].thread_id]
         started == [j \in 1..(Len(Requests(s)) - i) |->
                       [idx |-> i + j,
                        call |-> Invocation(FindTool(tools, Requests(s)[i + j].name),
                                            "ainvoke", Requests(s)[i + j].args, NoDoc)]]
     IN \E r \in dispatch(tools, retriever, tool_call) :
          IF r.out = Raised
            THEN /\ turn' = [turn EXCEPT ![s].pc = "failed",
                               ![s].error = "ToolInvocationError",
                               ![s].fragments = @ \o stream(tool_events(r.calls)),
                               ![s].invoked = @ \o Logged(i, r.calls) \o started]
                 /\ unclean' = [unclean EXCEPT ![turn[s].thread_id] = TRUE]
          ELSE IF r.out = Pending
            THEN /\ turn' = [turn EXCEPT ![s].pc = "awaiting",
                               ![s].invoked = @ \o Logged(i, r.calls) \o started]
                 /\ UNCHANGED unclean
            ELSE /\ turn' = [turn EXCEPT ![s].idx = i + 1,
                               ![s].fragments = @ \o stream(tool_events(r.calls)),
                               ![s].invoked = @ \o Logged(i, r.calls) \o started,
                               ![s].tool_outputs =
                                  @ \o <<ToolMessage(Str(r.out), tool_call.id, tool_call.name)>>]
                 /\ UNCHANGED unclean
  /\ UNCHANGED <<registry, uploads, chatbot, tools, discovered, checkpointer, checkpoint, thread_retrievers,
                 history, nWork, nUploads>>

\* a tools node that appends the results built so far when an invocation
\* raises
DispatchToolCall_partial(s) ==
  /\ turn[s].pc = "tools"
  /\ turn[s].idx <= Len(Requests(s))
  /\ LET i == turn[s].idx
         tool_call == Requests(s)[i]
         retriever == thread_retrievers[turn[s].thread_id]
     IN \E r \in dispatch(tools, retriever, tool_call) :
          IF r.out = Raised
            THEN /\ turn' = [turn EXCEPT ![s].pc = "failed",
                               ![s].error = "ToolInvocationError",
                               ![s].messages = @ \o turn[s].tool_outputs,
                               ![s].fragments = @ \o stream(tool_events(r.calls)),
                               ![s].invoked = @ \o Logged(i, r.calls)]
                 /\ unclean' = [unclean EXCEPT ![turn[s].thread_id] = TRUE]
          ELSE IF r.out = Pending
            THEN /\ turn' = [turn EXCEPT ![s].pc = "awaiting",
                               ![s].invoked = @ \o Logged(i, r.calls)]
                 /\ UNCHANGED unclean
            ELSE /\ turn' = [turn EXCEPT ![s].idx = i + 1,
                               ![s].fragments = @ \o stream(tool_events(r.calls)),
                               ![s].invoked = @ \o Logged(i, r.calls),
                               ![s].tool_outputs =
                                  @ \o <<ToolMessage(Str(r.out), tool_call.id, tool_call.name)>>]
                 /\ UNCHANGED unclean
  /\ UNCHANGED <<registry, uploads, chatbot, tools, discovered, checkpointer, checkpoint, thread_retrievers,
                 history, nWork, nUploads>>

\* the tools node (_call_tool), one request of the last message at a time
DispatchToolCall(s) ==
  /\ turn[s].pc = "tools"
  /\ turn[s].idx <= Len(Requests(s))
  /\ LET i == turn[s].idx
         tool_call == Requests(s)[i]
         retriever == thread_retrievers[turn[s].thread_id]
     IN \E r \in dispatch(tools, retriever, tool_call) :
          IF r.out = Raised
            THEN /\ turn' = [turn EXCEPT ![s].pc = "failed",
                               ![s].error = "ToolInvocationError",
                               ![s].fragments = @ \o stream(tool_events(r.calls)),
                               ![s].invoked = @ \o Logged(i, r.calls)]
                 /\ unclean' = [unclean EXCEPT ![turn[s].thread_id] = TRUE]
          ELSE IF r.out = Pending
            THEN /\ turn' = [turn EXCEPT ![s].pc = "awaiting",
                               ![s].invoked = @ \o Logged(i, r.calls)]
                 /\ UNCHANGED unclean
            ELSE /\ turn' = [turn EXCEPT ![s].idx = i + 1,
                               ![s].fragments = @ \o stream(tool_events(r.calls)),
                               ![s].invoked = @ \o Logged(i, r.calls),
                               ![s].tool_outputs =
                                  @ \o <<ToolMessage(Str(r.out), tool_call.id, tool_call.name)>>]
                 /\ UNCHANGED unclean
  /\ UNCHANGED <<registry, uploads, chatbot, tools, discovered, checkpointer, checkpoint, thread_retrievers,
                 history, nWork, nUploads>>

\* _call_tool returns {"messages": tool_outputs}; the edge leads back to agent
CallToolReturn(s) ==
  /\ turn[s].pc = "tools"
  /\ turn[s].idx > Len(Requests(s))
  /\ LET t == turn[s].thread_id
         messages == turn[s].messages \o turn[s].tool_outputs
         step == turn[s].step + 1
     IN /\ checkpoint' = put(checkpoint, t, messages)
        /\ IF out_of_steps(step)
             THEN /\ turn' = [turn EXCEPT ![s].pc = "failed",
                                ![s].messages = messages,
                                ![s].step = step,
                                ![s].error = "GraphRecursionError"]
                  /\ unclean' = [unclean EXCEPT ![t] = TRUE]
             ELSE /\ turn' = [turn EXCEPT ![s].pc = "agent",
                                ![s].messages = messages,
                                ![s].step = step]
                  /\ UNCHANGED unclean
  /\ UNCHANGED <<registry, uploads, chatbot, tools, discovered, checkpointer, thread_retrievers, history,
                 nWork, nUploads>>

\* a consumer that goes away while the graph run goes on
Abandon_detached(s) ==
  /\ Running(s)
  /\ nWork < MaxWork
  /\ nWork' = nWork + 1
  /\ turn' = [turn EXCEPT ![s].abandoned = TRUE]
  /\ UNCHANGED <<registry, uploads, chatbot, tools, discovered, checkpointer, checkpoint,
                 thread_retrievers, history, unclean, nUploads>>

\* the consumer of a streamed turn stops before the sequence has ended (the
\* client of GET /chat disconnects and StreamingResponse drops the body
\* iterator): the generator of stream is closed where it awaits the next
\* event, and with it the iterator of astream_events, which cancels the task
\* running the graph: the pending model call or tool call is cancelled, no
\* further node runs and nothing more is saved
Abandon(s) ==
  /\ Running(s)
  /\ nWork < MaxWork
  /\ nWork' = nWork + 1
  /\ turn' = [turn EXCEPT ![s].pc = "cancelled", ![s].abandoned = TRUE]
  /\ unclean' = [unclean EXCEPT ![turn[s].thread_id] = TRUE]
  /\ UNCHANGED <<registry, uploads, chatbot, tools, discovered, checkpointer, checkpoint,
                 thread_retrievers, history, nUploads>>

\* ----------------------------------------------------------------- shutdown
\* a ToolsManager.aclose that keeps its remote manager
ToolsManager_aclose_keeps(mgr) ==
  [remote_mgr |-> mgr, released |-> IF mgr # "none" THEN 1 ELSE 0]

\* ToolsManager.aclose: closes the remote manager, if there is one, and
\* drops it (RemoteMCPTools.aclose finds neither aclose nor close on its
\* MCPClient and returns)
ToolsManager_aclose(mgr) ==
  [remote_mgr |-> "none", released |-> IF mgr # "none" THEN 1 ELSE 0]

\* lifespan shutdown, once the requests in flight have ended:
\* ChatbotManager.aclose
Close ==
  /\ chatbot \in {"ready", "closed"}
  /\ \A s \in Slots : ~Running(s)
  /\ closes < MaxCloses
  /\ nWork < MaxWork
  /\ nWork' = nWork + 1
  /\ closes' = closes + 1
  /\ chatbot' = "closed"
  /\ IF tools_manager
       THEN /\ remote_mgr' = ToolsManager_aclose(remote_mgr).remote_mgr
            /\ released' = released + ToolsManager_aclose(remote_mgr).released
       ELSE UNCHANGED <<remote_mgr, released>>
  /\ UNCHANGED <<tools, discovered, checkpointer, checkpoint, thread_retrievers,
                 turn, history, unclean, nUploads, tools_manager, providers,
                 constructions, llm_with_tools, uploads>>

\* ------------------------------------------------------------ specification
Startup ==
  \/ \E cp \in BOOLEAN, enable_mcp \in BOOLEAN, client_ok \in BOOLEAN,
        outcome \in ProviderOutcomes :
       Create(cp, enable_mcp, client_ok, outcome)
  \/ \E cp \in BOOLEAN : Construct(cp)
  \/ \E client_ok \in BOOLEAN, outcome \in ProviderOutcomes :
       StartupWithoutKey(client_ok, outcome)

Next ==
  \/ Startup
  \/ \E t \in Threads, file \in UploadFiles : AddDocument(t, file)
  \/ \E t \in Threads, pdf_path \in Paths : upload_pdf(t, pdf_path)
  \/ \E s \in Slots, t \in Threads, text \in UserTexts : StartTurn(s, t, text)
  \/ \E s \in Slots : CallModel(s)
  \/ \E s \in Slots : DispatchToolCall(s)
  \/ \E s \in Slots : CallToolReturn(s)
  \/ \E s \in Slots : Abandon(s)
  \/ Close

Spec == Init /\ [][Next]_vars


\* ------------------------------------------------------------------ claims
Last(m) == m[Len(m)]

\* the registry holds no tool of this exact name
Unregistered(n) == \A k \in 1..Len(tools) : tools[k].name # n

\* the invocations logged for request i of the current tools step
InvokedFor(s, i) == {k \in 1..Len(turn[s].invoked) : turn[s].invoked[k].idx = i}

NotFoundMessage(tc) ==
  [type |-> "tool", tool_call_id |-> tc.id, name |-> tc.name,
   content |-> [py |-> "str", kind |-> "not_found", of |-> tc.name,
                arg |-> "", doc |-> NoDoc]]

NoDocumentMessage(tc) ==
  [type |-> "tool", tool_call_id |-> tc.id, name |-> tc.name,
   content |-> [py |-> "str", kind |-> "no_document", of |-> "rag_tool",
                arg |-> "", doc |-> NoDoc]]

\* C1: every Acting step, whatever its requests, appends exactly one
\* tool-result message per request, in the order of the requests and with
\* each request's id and name.
C1_OneResultPerRequest ==
  [][\A s \in Slots :
       (turn[s].pc = "tools" /\ turn'[s].pc # "tools") =>
         LET requests == Requests(s)
             added == SubSeq(turn'[s].messages, Len(turn[s].messages) + 1,
                             Len(turn'[s].messages))
         IN /\ Len(added) = Len(requests)
            /\ \A i \in 1..Len(requests) :
                 /\ added[i].type = "tool"
                 /\ added[i].tool_call_id = requests[i].id
                 /\ added[i].name = requests[i].name]_vars

\* C2: no failure of a tool invocation leaves the loop: a turn never ends
\* with a tool's exception.
C2_ToolFailureAbsorbed ==
  \A s \in Slots : ~(turn[s].pc = "failed" /\ turn[s].error = "ToolInvocationError")

\* C3: a request whose name matches no registered tool (exact comparison)
\* never raises and invokes nothing; its result is the not-found message with
\* the request's id and name, and that message is in the conversation when
\* the loop is back in Reasoning.
C3_UnknownToolNotFound ==
  \A s \in Slots :
    /\ (turn[s].pc = "tools" \/ turn[s].error = "ToolInvocationError") =>
         \A i \in 1..Len(Requests(s)) :
           Unregistered(Requests(s)[i].name) =>
             /\ InvokedFor(s, i) = {}
             /\ ~(turn[s].pc = "failed" /\ turn[s].idx = i)
             /\ i < turn[s].idx =>
                  turn[s].tool_outputs[i] = NotFoundMessage(Requests(s)[i])
    /\ (turn[s].pc = "agent" /\ turn[s].step > 0) =>
         LET m == turn[s].messages
             n == Len(turn[s].tool_outputs)
             ai == m[Len(m) - n]
         IN /\ ai.type = "ai"
            /\ Len(ai.tool_calls) = n
            /\ \A i \in 1..n :
                 Unregistered(ai.tool_calls[i].name) =>
                   m[Len(m) - n + i] = NotFoundMessage(ai.tool_calls[i])

\* a step that answered an unknown name and a registered tool is back in
\* Reasoning
C3_Witness ==
  \E s \in Slots :
    /\ turn[s].pc = "agent"
    /\ turn[s].step > 0
    /\ \E i, j \in 1..Len(turn[s].tool_outputs) :
         /\ turn[s].tool_outputs[i].name = "RAG_TOOL"
         /\ turn[s].tool_outputs[i].content.kind = "not_found"
         /\ turn[s].tool_outputs[j].content.kind = "quote"

\* C4: dispatching a rag_tool request in a thread without a retriever gives
\* the "no document indexed" result and invokes nothing; with a retriever the
\* tool is invoked with the request's query and the thread's retriever.
C4_RagToolRetriever ==
  [][\A s \in Slots :
       (/\ turn[s].pc = "tools"
        /\ turn[s].idx <= Len(Requests(s))
        /\ turn'[s] # turn[s]
        /\ ~turn'[s].abandoned
        /\ Requests(s)[turn[s].idx].name = "rag_tool") =>
         LET i == turn[s].idx
             tc == Requests(s)[i]
             retriever == thread_retrievers[turn[s].thread_id]
             made == SubSeq(turn'[s].invoked, Len(turn[s].invoked) + 1,
                            Len(turn'[s].invoked))
         IN IF retriever = NoDoc
              THEN /\ made = <<>>
                   /\ turn'[s].pc = "tools"
                   /\ turn'[s].tool_outputs =
                        turn[s].tool_outputs \o <<NoDocumentMessage(tc)>>
              ELSE /\ made # <<>>
                   /\ made[1] = [idx |-> i,
                                 call |-> [name |-> "rag_tool", origin |-> "local",
                                           via |-> "_arun", args |-> tc.args,
                                           retriever |-> retriever]]
                   /\ \A k \in 1..Len(made) :
                        /\ made[k].call.name = "rag_tool"
                        /\ made[k].call.args = tc.args
                        /\ made[k].call.retriever = retriever]_vars

\* one step answered a rag_tool request with "no document" and then, a
\* document having been associated, invoked rag_tool with the retriever
C4_Witness ==
  \E s \in Slots :
    /\ turn[s].pc = "tools"
    /\ Len(turn[s].tool_outputs) = 2
    /\ turn[s].tool_outputs[1].content.kind = "no_document"
    /\ turn[s].tool_outputs[2].content.kind = "passages"
    /\ \E k \in 1..Len(turn[s].invoked) :
         /\ turn[s].invoked[k].idx = 2
         /\ turn[s].invoked[k].call.retriever = thread_retrievers[turn[s].thread_id]
         /\ turn[s].invoked[k].call.retriever # NoDoc

\* C5: when the first Reasoning step returns a message without tool calls the
\* turn is over: no Acting step ran, the turn added the user message and that
\* one message, and the result is the content the model returned.
C5_NoToolCallsEndsTurn ==
  \A s \in Slots :
    (/\ turn[s].step = 1
     /\ Last(turn[s].messages).type = "ai"
     /\ Last(turn[s].messages).tool_calls = <<>>) =>
       /\ turn[s].pc = "done"
       /\ turn[s].invoked = <<>>
       /\ turn[s].tool_outputs = <<>>
       /\ Len(turn[s].messages) = turn[s].nbase + 2
       /\ turn[s].result = turn[s].reply

C5_Witness ==
  \E s \in Slots :
    turn[s].pc = "done" /\ turn[s].step = 1 /\ turn[s].result = "4"


\* the run has used up the graph's supersteps and the model still asks for
\* more (its last message is not a plain answer)
StillRequesting(s) ==
  /\ turn[s].step >= RecursionLimit
  /\ \/ Last(turn[s].messages).type # "ai"
     \/ Last(turn[s].messages).tool_calls # <<>>

\* C6 as stated: a turn that exceeds the maximum of Acting transitions ends
\* with the turn-level result "tool-call limit exceeded".
C6_LimitYieldsResult ==
  \A s \in Slots :
    StillRequesting(s) =>
      turn[s].pc = "done" /\ turn[s].result = "tool-call limit exceeded"

\* C6 amended: a turn never runs more than the graph's limit of supersteps,
\* and a turn that reaches the limit while the model still requests tools
\* ends with the error GraphRecursionError raised to the caller, not with a
\* result.
C6_LimitRaisesError ==
  \A s \in Slots :
    /\ turn[s].step <= RecursionLimit
    /\ StillRequesting(s) =>
         /\ turn[s].pc = "failed"
         /\ turn[s].error = "GraphRecursionError"
         /\ turn[s].result = ""

C6_Witness ==
  \E s \in Slots :
    /\ turn[s].pc = "failed"
    /\ turn[s].error = "GraphRecursionError"
    /\ turn[s].step = RecursionLimit
    /\ \E i \in 1..Len(turn[s].messages) : turn[s].messages[i].type = "tool"

\* C7: a turn that starts on a thread whose earlier turns all completed
\* invokes the model with the messages of those turns, in order, followed by
\* the new user message (an empty list before it on a new thread).
C7_NextTurnSeesEarlierTurns ==
  \A s \in Slots :
    (/\ turn[s].pc = "agent"
     /\ turn[s].step = 0
     /\ ~unclean[turn[s].thread_id]) =>
       LET m == turn[s].messages
       IN /\ Last(m).type = "human"
          /\ SubSeq(m, 1, Len(m) - 1) = history[turn[s].thread_id]

\* the messages from position i on are the rest of one turn: assistant
\* messages, each followed by one tool result per request, in order, up to an
\* assistant message without requests
RECURSIVE TurnFrom(_, _)
TurnFrom(m, i) ==
  /\ i <= Len(m)
  /\ m[i].type = "ai"
  /\ LET n == Len(m[i].tool_calls)
     IN IF n = 0
          THEN i = Len(m)
          ELSE /\ i + n < Len(m)
               /\ \A k \in 1..n :
                    /\ m[i + k].type = "tool"
                    /\ m[i + k].tool_call_id = m[i].tool_calls[k].id
                    /\ m[i + k].name = m[i].tool_calls[k].name
               /\ TurnFrom(m, i + n + 1)

\* C8: when a turn completes, the thread's checkpoint is what it was when
\* the turn started followed by exactly the turn's messages: the user
\* message, then each assistant message with one tool result per request.
C8_TurnAppendsToCheckpoint ==
  [][\A s \in Slots :
       (/\ turn[s].pc = "agent"
        /\ turn'[s].pc = "done"
        /\ ~unclean[turn[s].thread_id]) =>
         LET m == turn'[s].messages
             b == turn[s].nbase
         IN /\ checkpoint'[turn[s].thread_id] = m
            /\ SubSeq(m, 1, b) = history[turn[s].thread_id]
            /\ m[b + 1].type = "human"
            /\ TurnFrom(m, b + 2)]_vars

\* the model call of this step raised
ModelCallFailed(s) ==
  /\ turn[s].pc = "agent"
  /\ turn'[s].pc = "failed"
  /\ turn'[s].error = "ModelBackendError"

\* C9 as stated: when the model call fails, the thread's checkpoint is what
\* it was before the turn started.
C9_FailedTurnCommitsNothing ==
  [][\A s \in Slots :
       (ModelCallFailed(s) /\ ~unclean[turn[s].thread_id]) =>
         checkpoint'[turn[s].thread_id] = SubSeq(turn[s].messages, 1, turn[s].nbase)]_vars

\* C9 amended: the failure is surfaced (the turn ends failed, without a
\* result) and the failing step commits nothing, but nothing is rolled back:
\* with a checkpointer the checkpoint keeps the earlier history followed by
\* the turn's messages of the steps completed before the failure; without a
\* checkpointer it holds nothing.
C9_FailedTurnKeepsCompletedSteps ==
  [][\A s \in Slots :
       ModelCallFailed(s) =>
         /\ turn'[s].result = ""
         /\ turn'[s].messages = turn[s].messages
         /\ checkpoint' = checkpoint
         /\ ~unclean[turn[s].thread_id] =>
              checkpoint'[turn[s].thread_id] =
                IF checkpointer THEN turn[s].messages ELSE <<>>]_vars

\* the model call failed after an Acting step and the checkpoint holds the
\* turn's user message, tool-call message and tool result
C9_Witness ==
  \E s \in Slots :
    /\ turn[s].pc = "failed"
    /\ turn[s].error = "ModelBackendError"
    /\ turn[s].step = 2
    /\ checkpointer
    /\ checkpoint[turn[s].thread_id] = turn[s].messages
    /\ Len(turn[s].messages) = turn[s].nbase + 3

LocalNames == {local_tools[i].name : i \in 1..Len(local_tools)}

\* the discovered remote names that are also names of local tools
Colliding == {discovered[i] : i \in 1..Len(discovered)} \cap LocalNames

Named(n) == {i \in 1..Len(tools) : tools[i].name = n}

\* C10 as stated: of a name that a remote and a local tool share the merged
\* collection holds exactly one tool, the local one.
C10_CollisionDeduplicated ==
  \A n \in Colliding :
    Cardinality(Named(n)) = 1 /\ \A i \in Named(n) : tools[i].origin = "local"

\* C10 amended: the merged collection is the local tools followed by the
\* discovered remote tools, without deduplication: a shared name is held
\* twice, the local tool first and the remote one after it, and lookup by
\* that name gives the local tool.
C10_CollisionKeepsBothLocalFirst ==
  \A n \in Colliding :
    /\ Cardinality(Named(n)) = 2
    /\ \E i, j \in Named(n) :
         i < j /\ tools[i].origin = "local" /\ tools[j].origin = "remote"
    /\ FindTool(tools, n).origin = "local"

C10_Witness ==
  /\ chatbot = "ready"
  /\ "stock_price" \in Colliding


\* every server that discovery contacted failed
EveryProviderFailed == \A p \in DOMAIN providers : providers[p] = "fail"

\* C11: discovery does not propagate a failure: when the remote client is
\* unavailable or every provider fails, the manager is still created,
\* discovery gave the empty list and the tool list is exactly the local tools.
C11_DiscoveryFailureGivesLocalTools ==
  (tools_manager /\ (remote_mgr = "unavailable" \/ EveryProviderFailed)) =>
    /\ chatbot \in {"ready", "closed"}
    /\ discovered = <<>>
    /\ tools = local_tools

C11_Witness ==
  /\ chatbot = "ready"
  /\ EveryProviderFailed
  /\ remote_mgr = "connected"
  /\ tools = local_tools

\* C12: when one provider fails during discovery and another succeeds, every
\* tool of the provider that succeeded is in the tool list.
C12_SurvivingProviderKept ==
  \A p, q \in DOMAIN providers :
    (providers[p] = "ok" /\ providers[q] = "fail") =>
      \A i \in 1..Len(ProviderTools(p)) :
        \E k \in 1..Len(tools) : tools[k] = RemoteTool(ProviderTools(p)[i])

\* C13: closing is idempotent and safe: however often aclose has run, with or
\* without a tools manager, with discovery run, failed or never run, the
\* remote manager was released at most once, only if there was one, and after
\* a close there is none left to release.
C13_CloseIdempotent ==
  /\ released <= 1
  /\ ~tools_manager => released = 0
  /\ closes >= 1 => (remote_mgr = "none" /\ chatbot = "closed")
  /\ (closes >= 1 /\ released = 0) =>
       (~tools_manager \/ providers = NotContacted)

\* closed twice after a discovery that failed: released once
C13_Witness ==
  /\ closes = 2
  /\ released = 1
  /\ \E p \in DOMAIN providers : providers[p] = "fail"


\* the text carried by a sequence of frames
RECURSIVE Text(_)
Text(frames) ==
  IF frames = <<>> THEN "" ELSE Head(frames).data.content \o Text(Tail(frames))

\* C14: in a streaming turn every fragment delivered is text the model
\* generated in a Reasoning step: a step that delivers fragments is a step of
\* the agent node, the fragments it adds are non-empty and together are the
\* content of the assistant message of that step; a step of the tools node
\* delivers none.
C14_FragmentsOnlyFromReasoning ==
  [][\A s \in Slots :
       LET old == turn[s].fragments
           new == turn'[s].fragments
       IN /\ (new # old /\ new # <<>>) =>
               /\ turn[s].pc = "agent"
               /\ Len(new) > Len(old)
               /\ SubSeq(new, 1, Len(old)) = old
               /\ \A k \in (Len(old) + 1)..Len(new) : new[k].data.content # ""
               /\ Text(SubSeq(new, Len(old) + 1, Len(new))) =
                    Last(turn'[s].messages).content
          /\ turn[s].pc = "tools" => new = old]_vars

\* text was streamed in the first Reasoning step, a tool ran, and the Acting
\* step added nothing
C14_Witness ==
  \E s \in Slots :
    /\ turn[s].pc = "agent"
    /\ turn[s].step = 2
    /\ turn[s].invoked # <<>>
    /\ turn[s].fragments = <<sse("o"), sse("k")>>

\* the frames of the non-empty chunks of the assistant messages of m from
\* position i on, in order
RECURSIVE EmittedFrom(_, _)
EmittedFrom(m, i) ==
  IF i > Len(m) THEN <<>>
  ELSE (IF m[i].type = "ai"
          THEN LET chunks == Chunks(m[i].content)
               IN stream([k \in 1..Len(chunks) |->
                            Event("on_chat_model_stream", chunks[k])])
          ELSE <<>>)
         \o EmittedFrom(m, i + 1)

\* C15: the fragments of a turn are the non-empty chunks of its Reasoning
\* steps in the order the model emitted them, those of a later step after
\* those of an earlier one with nothing between them, and once the turn has
\* ended they are complete: they end with the chunks of the last step.
C15_FragmentsInEmissionOrder ==
  \A s \in Slots :
    turn[s].fragments = EmittedFrom(turn[s].messages, turn[s].nbase + 1)

\* two Reasoning steps around one Acting step: "o", "k", then the answer
C15_Witness ==
  \E s \in Slots :
    /\ turn[s].pc = "done"
    /\ turn[s].step = 3
    /\ turn[s].fragments = <<sse("o"), sse("k"), sse("4")>>


\* C16: a chat request whose message is blank after trimming is refused with
\* the empty-message error: no turn ever holds a blank user message, and the
\* step that refuses a request invokes no model and leaves every thread's
\* checkpoint, history and retriever as they were.
C16_BlankMessageRejected ==
  [][\A s \in Slots :
       /\ \A i \in 1..Len(turn'[s].messages) :
            turn'[s].messages[i].type = "human" =>
              turn'[s].messages[i].content \notin BlankTexts
       /\ (turn'[s].pc = "rejected" /\ turn'[s] # turn[s]) =>
            /\ turn'[s].error = EmptyMessage
            /\ turn'[s].step = 0
            /\ turn'[s].messages = <<>>
            /\ turn'[s].fragments = <<>>
            /\ UNCHANGED <<checkpoint, history, thread_retrievers>>]_vars

\* a blank message was refused on a thread that has a saved conversation
C16_Witness ==
  \E s \in Slots :
    /\ turn[s].pc = "rejected"
    /\ checkpoint[turn[s].thread_id] # <<>>
    /\ checkpoint[turn[s].thread_id] = history[turn[s].thread_id]


\* C17: a thread has one retriever at most, the one of its latest successful
\* association: a successful association for t puts the newly built
\* retriever (and no earlier one) in t's place and leaves the other threads
\* as they are; no other step changes a thread's retriever, so a thread
\* without association has none.
C17_LatestRetrieverOnly ==
  [][\A t \in Threads :
       IF nUploads' = nUploads + 1 /\ upload'.thread_id = t
         THEN /\ thread_retrievers'[t] = DocIds[nUploads']
              /\ thread_retrievers'[t] # thread_retrievers[t]
              /\ thread_metadata'[t] = [filename |-> DocIds[nUploads']]
         ELSE /\ thread_retrievers'[t] = thread_retrievers[t]
              /\ thread_metadata'[t] = thread_metadata[t]]_vars

\* two documents were associated with one thread: it has the second one's
\* retriever, the other thread has none
C17_Witness ==
  /\ nUploads = 2
  /\ \E t \in Threads :
       /\ thread_retrievers[t] = DocIds[2]
       /\ \A u \in Threads \ {t} : thread_retrievers[u] = NoDoc

\* the step is an upload that failed
UploadFailed ==
  /\ upload'.error # ""
  /\ nWork' = nWork + 1
  /\ nUploads' = nUploads
  /\ turn' = turn
  /\ closes' = closes

\* C18: a failed association is surfaced (the error is raised to the caller;
\* POST /upload-pdf answers 404 or 500) and changes nothing: retrievers,
\* metadata, checkpoints and turns are as before.
C18_FailedAssociationChangesNothing ==
  [][UploadFailed =>
       /\ upload'.status \in {0, 404, 500}
       /\ UNCHANGED <<thread_retrievers, thread_metadata, checkpoint, history, turn,
                      tools, checkpointer>>]_vars

\* an upload for a thread that has a retriever failed; the retriever stayed
C18_Witness ==
  /\ upload.error = "IngestionError"
  /\ thread_retrievers[upload.thread_id] = DocIds[1]
  /\ thread_metadata[upload.thread_id] = [filename |-> DocIds[1]]

\* C19: an upload whose source cannot be located is answered with the
\* document-not-found condition (FileNotFoundError, status 404), and every
\* other failure with the generic one (status 500).
C19_NotFoundToldApart ==
  /\ upload.file = "missing.pdf" =>
       (upload.error = "FileNotFoundError" /\ upload.status = 404)
  /\ (upload.file # "missing.pdf" /\ upload.error # "" /\ upload.status # 0) =>
       upload.status = 500


\* the messages a turn added to the conversation it loaded
Own(s) == SubSeq(turn[s].messages, turn[s].nbase + 1, Len(turn[s].messages))

EndsWith(m, x) ==
  /\ Len(m) >= Len(x)
  /\ SubSeq(m, Len(m) - Len(x) + 1, Len(m)) = x

\* C20: turns on one thread are serialized: when two request handlers have
\* completed turns on the same thread of a manager with a checkpointer, the
\* thread's checkpoint ends with the messages of one of the turns followed by
\* the messages of the other, none lost and none interleaved.
C20_SameThreadTurnsSerialized ==
  \A a, b \in Slots :
    (/\ a # b
     /\ checkpointer
     /\ turn[a].pc = "done"
     /\ turn[b].pc = "done"
     /\ turn[a].thread_id = turn[b].thread_id) =>
      \/ EndsWith(checkpoint[turn[a].thread_id], Own(a) \o Own(b))
      \/ EndsWith(checkpoint[turn[a].thread_id], Own(b) \o Own(a))


\* the thread a step works on: the thread of the turn it moves, or of the
\* upload it makes
Touched(t) ==
  \/ \E s \in Slots : turn'[s] # turn[s] /\ turn'[s].thread_id = t
  \/ upload' # upload /\ upload'.thread_id = t
  \/ nUploads' # nUploads /\ upload'.thread_id = t

\* C21: threads are independent under any interleaving: a step of a turn or
\* a document association on one thread leaves the checkpoint, the history,
\* the retriever and the metadata of every other thread as they were, and a
\* rag_tool invocation made in a turn uses the retriever of the turn's own
\* thread, never the one of another thread.
C21_ThreadsIndependent ==
  [][/\ \A u \in Threads :
          ~Touched(u) =>
            /\ checkpoint'[u] = checkpoint[u]
            /\ history'[u] = history[u]
            /\ thread_retrievers'[u] = thread_retrievers[u]
            /\ thread_metadata'[u] = thread_metadata[u]
     /\ \A s \in Slots :
          \A k \in (Len(turn[s].invoked) + 1)..Len(turn'[s].invoked) :
            LET call == turn'[s].invoked[k].call
            IN call.name = "rag_tool" =>
                 /\ call.retriever = thread_retrievers[turn[s].thread_id]
                 /\ \A u \in Threads \ {turn[s].thread_id} :
                      call.retriever # thread_retrievers[u]]_vars

\* turns on two threads overlapped under a checkpointer: the first thread has
\* a document and a saved conversation, the turn on the second one asked
\* rag_tool and was told that no document is indexed
C21_Witness ==
  /\ checkpointer
  /\ turn[1].thread_id = "t1"
  /\ turn[2].thread_id = "t2"
  /\ turn[1].pc = "done"
  /\ thread_retrievers["t1"] # NoDoc
  /\ thread_retrievers["t2"] = NoDoc
  /\ checkpoint["t1"] = turn[1].messages
  /\ Len(turn[2].tool_outputs) = 1
  /\ turn[2].tool_outputs[1].content.kind = "no_document"


\* the position of the nearest assistant message before position i (0: none)
PrecedingAI(m, i) ==
  LET ais == {j \in 1..(i - 1) : m[j].type = "ai"}
  IN IF ais = {} THEN 0 ELSE CHOOSE j \in ais : \A k \in ais : k <= j

\* every tool message answers a request of the nearest assistant message
\* before it, with that request's id and name
Answered(m) ==
  \A i \in 1..Len(m) :
    m[i].type = "tool" =>
      /\ PrecedingAI(m, i) > 0
      /\ \E k \in 1..Len(m[PrecedingAI(m, i)].tool_calls) :
           /\ m[PrecedingAI(m, i)].tool_calls[k].id = m[i].tool_call_id
           /\ m[PrecedingAI(m, i)].tool_calls[k].name = m[i].name

IsPrefix(x, m) == Len(x) <= Len(m) /\ SubSeq(m, 1, Len(x)) = x

CutOff(s) ==
  /\ Next
  /\ turn'[s].pc \in {"tools", "agent"}
  /\ turn'[s].thread_id = turn[s].thread_id
  /\ Len(turn'[s].tool_outputs) + Len(turn'[s].messages) >
       Len(turn[s].tool_outputs) + Len(turn[s].messages)

\* C23: a tool invocation that never returns does not block the turn: the
\* turn that waits for it can take the step that cuts the invocation off,
\* adds an error result for the request and lets the loop go on.
C23_HungToolCutOff ==
  \A s \in Slots : turn[s].pc = "awaiting" => ENABLED CutOff(s)


C25_MissingCredentialFatal ==
  chatbot = "startup_failed" =>
    /\ tools = <<>>
    /\ \A s \in Slots : turn[s] = IdleTurn
    /\ constructions = 1


\* C26: a response of an unrecognized shape does not fail the turn: no turn
\* ends with the error raised on such a response, and a conversation that
\* ends with the string form of such a response ends with a plain assistant
\* message, the turn being over with that text as its result.
C26_UnrecognizedShapeWrapped ==
  \A s \in Slots :
    /\ ~(turn[s].pc = "failed" /\ turn[s].error = "AttributeError")
    /\ (turn[s].messages # <<>> /\ Last(turn[s].messages).content = UnrecognizedText) =>
         /\ Last(turn[s].messages) = AIMessage(UnrecognizedText, <<>>)
         /\ turn[s].pc = "done"
         /\ turn[s].result = UnrecognizedText


\* C27: the requests of one Acting step are dispatched one after the other in
\* the listed order: the invocations made are in the order of the requests,
\* none is made for a request after the current one, and when the step
\* turns to a request every invocation made for the earlier ones has
\* finished: each earlier request has its result.
C27_SequentialDispatch ==
  \A s \in Slots :
    LET made == turn[s].invoked
    IN /\ \A k, l \in 1..Len(made) : k < l => made[k].idx <= made[l].idx
       /\ \A k \in 1..Len(made) : made[k].idx <= turn[s].idx
       /\ turn[s].pc = "tools" =>
            /\ \A k \in 1..Len(made) : made[k].idx < turn[s].idx
            /\ Len(turn[s].tool_outputs) = turn[s].idx - 1
            /\ \A k \in 1..Len(turn[s].tool_outputs) :
                 turn[s].tool_outputs[k].tool_call_id = Requests(s)[k].id
       /\ turn[s].pc = "awaiting" => Len(turn[s].tool_outputs) = turn[s].idx - 1

\* a step of two requests invoked a tool for each, the second after the first
C27_Witness ==
  \E s \in Slots :
    /\ turn[s].pc = "tools"
    /\ turn[s].idx = 3
    /\ Len(turn[s].invoked) = 2
    /\ turn[s].invoked[1].idx = 1
    /\ turn[s].invoked[2].idx = 2

\* C29: an Acting step whose k-th invocation raises adds nothing to the
\* conversation: the turn ends with the tool's error, the conversation still
\* ends with the assistant message of the requests, and the results built
\* for the requests before the k-th are dropped, although their tools ran:
\* the step that raises changes no conversation and no checkpoint.
C29_RaiseDropsEarlierResults ==
  /\ [](\A s \in Slots :
          (turn[s].pc = "failed" /\ turn[s].error = "ToolInvocationError") =>
            LET m == turn[s].messages
            IN /\ Last(m).type = "ai"
               /\ Last(m).tool_calls # <<>>
               /\ turn[s].idx <= Len(Last(m).tool_calls)
               /\ Len(turn[s].tool_outputs) = turn[s].idx - 1
               /\ \E k \in 1..Len(turn[s].invoked) :
                    turn[s].invoked[k].idx = turn[s].idx
               /\ turn[s].result = "")
  /\ [][\A s \in Slots :
          (/\ turn[s].pc = "tools"
           /\ turn'[s].pc = "failed"
           /\ turn'[s].error = "ToolInvocationError") =>
            /\ turn'[s].messages = turn[s].messages
            /\ turn'[s].tool_outputs = turn[s].tool_outputs
            /\ checkpoint' = checkpoint
            /\ history' = history]_vars

\* the second invocation of a step raised after the first had run and given
\* its result
C29_Witness ==
  \E s \in Slots :
    /\ turn[s].pc = "failed"
    /\ turn[s].error = "ToolInvocationError"
    /\ turn[s].idx = 2
    /\ Len(turn[s].tool_outputs) = 1
    /\ turn[s].tool_outputs[1].content.kind = "quote"
    /\ turn[s].invoked[1].idx = 1
    /\ checkpointer
    /\ checkpoint[turn[s].thread_id] = turn[s].messages


\* the turn of handler s is over after the step
Ends(s) == Running(s) /\ turn'[s].pc \in {"done", "failed"}

\* C28: a turn alternates strictly, starting in Reasoning: Acting is entered
\* only from a Reasoning step whose message has a tool call, a finished
\* Acting step is followed by Reasoning, a Reasoning step adds exactly one
\* message, and a turn ends only from Reasoning.
C28_StrictAlternation ==
  [][\A s \in Slots :
       /\ (turn[s].pc # "agent" /\ turn'[s].pc = "agent") =>
            \/ turn'[s].step = 0
            \/ turn[s].pc = "tools"
       /\ (turn[s].pc # "tools" /\ turn'[s].pc = "tools") =>
            /\ turn[s].pc = "agent"
            /\ Last(turn'[s].messages).type = "ai"
            /\ Last(turn'[s].messages).tool_calls # <<>>
       /\ (turn[s].pc = "tools" /\ turn[s].idx > Len(Requests(s))
             /\ turn'[s] # turn[s]) =>
            turn'[s].pc = "agent"
       /\ (turn[s].pc = "agent" /\ turn'[s].pc \in {"agent", "tools", "done"}
             /\ turn'[s] # turn[s]) =>
            /\ Len(turn'[s].messages) = Len(turn[s].messages) + 1
            /\ SubSeq(turn'[s].messages, 1, Len(turn[s].messages)) = turn[s].messages
       /\ Ends(s) => turn[s].pc = "agent"]_vars


Advertised == {llm_with_tools[i] : i \in 1..Len(llm_with_tools)}

\* C30: the tools the model is told are the tools dispatch resolves: once a
\* manager exists, however it was made, the names bound to the model are the
\* names of the tool list, each of them resolves to a tool, and no request
\* that names one of them was answered with the not-found result.
C30_AdvertisedToolsResolve ==
  chatbot \in {"ready", "closed"} =>
    /\ Advertised = {tools[i].name : i \in 1..Len(tools)}
    /\ \A n \in Advertised : FindTool(tools, n) # NoTool
    /\ \A s \in Slots :
         \A k \in 1..Len(turn[s].tool_outputs) :
           turn[s].tool_outputs[k].name \in Advertised =>
             turn[s].tool_outputs[k].content.kind # "not_found"

\* a manager made by create told the model a discovered tool, and a request
\* for it was dispatched to that tool
C30_Witness ==
  /\ tools_manager
  /\ "calculator" \in Advertised
  /\ \E s \in Slots :
       \E k \in 1..Len(turn[s].tool_outputs) :
         /\ turn[s].tool_outputs[k].name = "calculator"
         /\ turn[s].tool_outputs[k].content.kind = "result"


\* the names that the tool list holds both as a local and as a remote tool
SharedNames ==
  {tools[i].name : i \in {j \in 1..Len(tools) :
     /\ tools[j].origin = "local"
     /\ \E k \in 1..Len(tools) :
          tools[k].origin = "remote" /\ tools[k].name = tools[j].name}}

\* C31: in the tool list every local tool stands before every remote tool,
\* and every invocation that a dispatch made for a request naming a tool
\* held both as a local and as a remote tool went to the local tool.
C31_LocalWinsCollision ==
  /\ \A i, j \in 1..Len(tools) :
       (tools[i].origin = "local" /\ tools[j].origin = "remote") => i < j
  /\ \A s \in Slots :
       \A k \in 1..Len(turn[s].invoked) :
         turn[s].invoked[k].call.name \in SharedNames =>
           turn[s].invoked[k].call.origin = "local"

\* discovery returned a remote stock_price and a request for stock_price
\* was dispatched and answered
C31_Witness ==
  /\ "stock_price" \in SharedNames
  /\ \E s \in Slots :
       /\ \E k \in 1..Len(turn[s].invoked) :
            /\ turn[s].invoked[k].call.name = "stock_price"
            /\ turn[s].invoked[k].call.origin = "local"
       /\ \E k \in 1..Len(turn[s].messages) :
            /\ turn[s].messages[k].type = "tool"
            /\ turn[s].messages[k].name = "stock_price"
            /\ turn[s].messages[k].content.kind = "quote"


\* the thread_ids that are keys of a map
Keys(map, none) == {t \in DOMAIN map : map[t] # none}

\* C32: in every state that a task can observe, the retriever map and the
\* metadata map have the same thread_ids as keys, and the metadata of a
\* thread names the document its retriever was built from; this holds too
\* while a turn on the thread is in flight.
C32_RetrieverIffMetadata ==
  /\ Keys(thread_retrievers, NoDoc) = Keys(thread_metadata, NoMeta)
  /\ \A t \in Keys(thread_retrievers, NoDoc) :
       thread_metadata[t].filename = thread_retrievers[t]

\* a document was associated with a thread while a turn on it was between
\* two tool requests: the first request found no document, and now the
\* thread has a retriever and metadata
C32_Witness ==
  \E s \in Slots :
    /\ turn[s].pc = "tools"
    /\ turn[s].idx = 2
    /\ turn[s].tool_outputs[1].content = Str(NoDocumentOutput)
    /\ upload.thread_id = turn[s].thread_id
    /\ upload.error = ""
    /\ thread_retrievers[turn[s].thread_id] # NoDoc
    /\ thread_metadata[turn[s].thread_id] # NoMeta


\* one Reasoning step as the graph runs it under a driver: whether the model
\* call raised, the conversation after the step and the node the edge names
agent_node(driver, messages, response) ==
  LET out == messages \o <<normalize(llm_ainvoke(driver, response))>>
  IN [raised |-> response.kind = "raise",
      messages |-> out,
      next |-> should_continue(out)]

RECURSIVE ChunkTexts(_, _)
ChunkTexts(m, i) ==
  IF i > Len(m) THEN <<>>
  ELSE (IF m[i].type = "ai"
          THEN LET chunks == SelectSeq(MessageChunks(m[i]), LAMBDA c : c.content # "")
               IN [k \in 1..Len(chunks) |-> chunks[k].content]
          ELSE <<>>)
         \o ChunkTexts(m, i + 1)

\* C34: no fragment delivered is empty; the fragments of a turn are, one for
\* one and in order, the chunks with content of its model calls, so a chunk
\* without content (the first chunk of a call, a chunk that carries only a
\* tool call) gives no fragment and does not end the sequence.
C34_NoEmptyFragment ==
  \A s \in Slots :
    /\ \A k \in 1..Len(turn[s].fragments) : turn[s].fragments[k].data.content # ""
    /\ [k \in 1..Len(turn[s].fragments) |-> turn[s].fragments[k].data.content] =
         ChunkTexts(turn[s].messages, turn[s].nbase + 1)

\* a model call that streamed only chunks without content (a tool call with
\* no text) was followed by a call whose text was delivered
C34_Witness ==
  \E s \in Slots :
    /\ turn[s].fragments = <<sse("4")>>
    /\ \E k \in 1..Len(turn[s].messages) :
         /\ k > turn[s].nbase
         /\ turn[s].messages[k].type = "ai"
         /\ turn[s].messages[k].content = ""
         /\ turn[s].messages[k].tool_calls # <<>>
    /\ Last(turn[s].messages).content = "4"

====
